---- MODULE Spec2Model ----
(***************************************************************************)
(* Model of the client-side controller of SentinAI: the React hook         *)
(* useAgent (src/frontend/hooks/useAgent.ts).                              *)
(*                                                                         *)
(* The hook owns four pieces of React state (messages, isProcessing,       *)
(* agentStatus, thinkingSteps) and three callbacks (sendMessage,           *)
(* uploadFile, clearMessages).  sendMessage and uploadFile are async: the  *)
(* part before the first await runs atomically when the callback is        *)
(* called; the handler resumes when fetch resolves, only to call           *)
(* response.json() and suspend again, and the rest runs atomically when    *)
(* the body has been read (or as soon as fetch rejects).                   *)
(* Both callbacks are memoised on [isProcessing], so the guard             *)
(* on line 104/175 reads the isProcessing value of the render in which     *)
(* the callback was created, not the latest state.                         *)
(*                                                                         *)
(* Strings are modelled as sequences of chunks (a chunk is a TLA+ string), *)
(* so that trim, includes, startsWith and || are computed, not assumed.    *)
(* An optional value is a sequence of length 0 (absent) or 1 (present).    *)
(*                                                                         *)
(* The FileUpload component (src/frontend/components/FileUpload.tsx),      *)
(* which stages a file and simulates its upload progress with setInterval  *)
(* before handing it to uploadFile, is modelled as a specification of its  *)
(* own: the component on its own variables, wired to the hook as the page  *)
(* wires it (src/frontend/app/page.tsx, line 169).  Its handlers are       *)
(* rebuilt by every render and read uploadedFile, query and isProcessing   *)
(* as that render had them.                                                *)
(***************************************************************************)
EXTENDS Integers, Sequences, FiniteSets, TLC

VARIABLES
    messages,             \* useState<Message[]>            (line 34)
    isProcessing,         \* useState(false)                (line 35)
    agentStatus,          \* useState<AgentStatus>("ready") (line 36)
    thinkingSteps,        \* useState<ThinkingStep[]>       (line 37)
    renderedIsProcessing, \* isProcessing as captured by the current callbacks
    inflight,             \* suspended handler runs, awaiting the transport
    timers,               \* pending setTimeout callbacks (lines 168, 249)
    origin,               \* history: for each message, the submission it belongs to
    nAccepted,            \* history: submissions that passed the guard
    nFetch,               \* history: calls of fetch
    event,                \* history: the handler that ran last and its status writes
    trace,                \* the argument of a call of parseIntermediateSteps (line 41)
    parsed,               \* what that call returned (line 88), absent before it returns
    mediaType,            \* a file.type as read by lines 189-191
    category,             \* the fileType computed from it, absent before it is
    uploadedFile,         \* FileUpload: useState<UploadedFile | null>(null) (line 30)
    queryText,            \* FileUpload: useState("") named query (line 31)
    intervals,            \* FileUpload: the setInterval timers created by onDrop
    renderedUploadedFile, \* FileUpload: uploadedFile as the handlers on screen captured it
    renderedQuery,        \* FileUpload: query as the handlers on screen captured it
    onUploadCall          \* FileUpload history: the arguments of the last onUpload call

vars == <<messages, isProcessing, agentStatus, thinkingSteps,
          renderedIsProcessing, inflight, timers, origin, nAccepted, nFetch, event,
          trace, parsed, mediaType, category,
          uploadedFile, queryText, intervals, onUploadCall,
          renderedUploadedFile, renderedQuery>>

\* the state of the FileUpload component
uploadVars == <<uploadedFile, queryText, intervals, onUploadCall>>

\* the component state read by the handlers of the render on screen
renderedUpload == <<renderedUploadedFile, renderedQuery>>

\* a call of parseIntermediateSteps, the fileType expression and the
\* FileUpload component, each taken on its own
callVars == <<trace, parsed, mediaType, category, uploadVars, renderedUpload>>

hookState == <<messages, isProcessing, agentStatus, thinkingSteps>>

\* the hook with the bookkeeping of its handlers
hookVars == <<hookState, renderedIsProcessing, inflight, timers, origin, nAccepted,
              nFetch, event>>

----------------------------------------------------------------------------
(* Bounds *)

MaxSubmissions == 2      \* accepted submissions in one behaviour
MaxDuplicateIds == 1      \* ids held twice at a time, after which draws are fresh
MaxTraceLen == 3         \* chunks in the trace string given to parseIntermediateSteps
MaxTypeLen == 3          \* chunks in a file's media type
MaxDrops == 2            \* files dropped on the FileUpload component in one behaviour

Max(S) == IF S = {} THEN 0 ELSE CHOOSE x \in S : \A y \in S : y <= x

\* an id that is not in use: the least one
Fresh(inUse) ==
    CHOOSE i \in 1..(Cardinality(inUse) + 1) :
        i \notin inUse /\ \A j \in 1..(i - 1) : j \in inUse

\* the ids that the messages and the steps hold more than once
DuplicateIds ==
    (Len(messages) - Cardinality({ messages[i].id : i \in DOMAIN messages }))
    + (Len(thinkingSteps)
         - Cardinality({ thinkingSteps[i].id : i \in DOMAIN thinkingSteps }))

\* generateId (line 39): a random token, drawn with no regard to the ids in use.
\* The code only ever compares ids for equality, so a draw is represented up to
\* renaming: it is an id that is not in use, which is what Math.random() gives
\* in practice, or, a collision, one of the ids in use.  Collisions are drawn
\* while fewer than MaxDuplicateIds ids are held twice.
generateId(inUse) ==
    {Fresh(inUse)} \cup (IF DuplicateIds < MaxDuplicateIds THEN inUse ELSE {})

----------------------------------------------------------------------------
(* Strings *)

Str(x) == <<x>>
EmptyStr == <<>>

IsSpace(c) == c = " "

RECURSIVE TrimStart(_)
TrimStart(s) ==
    IF s = <<>> THEN <<>>
    ELSE IF IsSpace(Head(s)) THEN TrimStart(Tail(s)) ELSE s

RECURSIVE TrimEnd(_)
TrimEnd(s) ==
    IF s = <<>> THEN <<>>
    ELSE IF IsSpace(s[Len(s)]) THEN TrimEnd(SubSeq(s, 1, Len(s) - 1)) ELSE s

\* String.prototype.trim
Trim(s) == TrimEnd(TrimStart(s))

\* String.prototype.includes
Includes(s, m) ==
    \E i \in 0..(Len(s) - Len(m)) : SubSeq(s, i + 1, i + Len(m)) = m

\* String.prototype.startsWith
StartsWith(s, p) == Len(p) <= Len(s) /\ SubSeq(s, 1, Len(p)) = p

\* a || b on an optional string: absent and "" are falsy
OrElse(opt, default) ==
    IF opt = <<>> \/ opt[1] = EmptyStr THEN default ELSE opt[1]

----------------------------------------------------------------------------
(* Data *)

None == <<>>
Some(x) == <<x>>

\* interface Message (lines 9-15); the timestamp is not modelled
Message(id, role, content, file) ==
    [id |-> id, role |-> role, content |-> content, file |-> file]

\* interface ThinkingStep (lines 17-24)
ThinkingStep(id, type, title, description, status, duration) ==
    [id |-> id, type |-> type, title |-> title, description |-> description,
     status |-> status, duration |-> duration]

\* Math.random() in thousandths: the least and the greatest value it returns
RandomSamples == {0, 999}

\* Math.floor(Math.random() * span) + base
RandomDuration(rnd, span, base) == ((rnd * span) \div 1000) + base

TranscribeAudio == Str("transcribe_audio")
QueryDocument == Str("query_document")
ClassifyTicket == Str("classify_ticket")

\* the number of steps parseIntermediateSteps pushes, which is the number of
\* generateId and Math.random draws it makes
StepCount(stepsString) ==
    LET n == (IF Includes(stepsString, TranscribeAudio) THEN 1 ELSE 0)
             + (IF Includes(stepsString, QueryDocument) THEN 1 ELSE 0)
             + (IF Includes(stepsString, ClassifyTicket) THEN 1 ELSE 0)
    IN IF n = 0 THEN 1 ELSE n

\* the draws of one call: draw[k] is <<generateId(), Math.random()>> of the k-th push
RECURSIVE DrawsOf(_, _)
DrawsOf(n, inUse) ==
    IF n = 0 THEN {<<>>}
    ELSE UNION { { <<<<id, rnd>>>> \o rest : rest \in DrawsOf(n - 1, inUse \cup {id}) } :
                   id \in generateId(inUse), rnd \in RandomSamples }

Draws(stepsString, inUse) == DrawsOf(StepCount(stepsString), inUse)

\* parseIntermediateSteps if it tested classify_ticket before the other markers
parseIntermediateSteps_ClassifyFirst(stepsString, draw) ==
    LET s0 == <<>>
        d1 == draw[Len(s0) + 1]
        s1 == IF Includes(stepsString, ClassifyTicket)
              THEN Append(s0, ThinkingStep(d1[1], "classify", Str("Ticket Classification"),
                              Str("Categorizing ticket using ML classifier"), "completed",
                              Some(RandomDuration(d1[2], 500, 100))))
              ELSE s0
        d2 == draw[Len(s1) + 1]
        s2 == IF Includes(stepsString, TranscribeAudio)
              THEN Append(s1, ThinkingStep(d2[1], "audio", Str("Audio Transcription"),
                              Str("Transcribing audio using Whisper AI"), "completed",
                              Some(RandomDuration(d2[2], 2000, 500))))
              ELSE s1
        d3 == draw[Len(s2) + 1]
        s3 == IF Includes(stepsString, QueryDocument)
              THEN Append(s2, ThinkingStep(d3[1], "document", Str("Document Analysis"),
                              Str("Extracting information using LayoutLM"), "completed",
                              Some(RandomDuration(d3[2], 3000, 1000))))
              ELSE s2
        d4 == draw[1]
    IN IF Len(s3) = 0
       THEN Append(s3, ThinkingStep(d4[1], "reasoning", Str("Agent Reasoning"),
                           Str("Processing request with Gemini LLM"), "completed",
                           Some(RandomDuration(d4[2], 1500, 500))))
       ELSE s3

\* parseIntermediateSteps without the steps.length === 0 test of line 77
parseIntermediateSteps_FallbackAlways(stepsString, draw) ==
    LET s0 == <<>>
        d1 == draw[Len(s0) + 1]
        s1 == IF Includes(stepsString, TranscribeAudio)
              THEN Append(s0, ThinkingStep(d1[1], "audio", Str("Audio Transcription"),
                              Str("Transcribing audio using Whisper AI"), "completed",
                              Some(RandomDuration(d1[2], 2000, 500))))
              ELSE s0
        d2 == draw[Len(s1) + 1]
        s2 == IF Includes(stepsString, QueryDocument)
              THEN Append(s1, ThinkingStep(d2[1], "document", Str("Document Analysis"),
                              Str("Extracting information using LayoutLM"), "completed",
                              Some(RandomDuration(d2[2], 3000, 1000))))
              ELSE s1
        d3 == draw[Len(s2) + 1]
        s3 == IF Includes(stepsString, ClassifyTicket)
              THEN Append(s2, ThinkingStep(d3[1], "classify", Str("Ticket Classification"),
                              Str("Categorizing ticket using ML classifier"), "completed",
                              Some(RandomDuration(d3[2], 500, 100))))
              ELSE s2
        d4 == draw[1]
    IN Append(s3, ThinkingStep(d4[1], "reasoning", Str("Agent Reasoning"),
                      Str("Processing request with Gemini LLM"), "completed",
                      Some(RandomDuration(d4[2], 1500, 500))))

\* parseIntermediateSteps (lines 41-89)
parseIntermediateSteps(stepsString, draw) ==
    LET s0 == <<>>
        d1 == draw[Len(s0) + 1]
        s1 == IF Includes(stepsString, TranscribeAudio)
              THEN Append(s0, ThinkingStep(d1[1], "audio", Str("Audio Transcription"),
                              Str("Transcribing audio using Whisper AI"), "completed",
                              Some(RandomDuration(d1[2], 2000, 500))))
              ELSE s0
        d2 == draw[Len(s1) + 1]
        s2 == IF Includes(stepsString, QueryDocument)
              THEN Append(s1, ThinkingStep(d2[1], "document", Str("Document Analysis"),
                              Str("Extracting information using LayoutLM"), "completed",
                              Some(RandomDuration(d2[2], 3000, 1000))))
              ELSE s1
        d3 == draw[Len(s2) + 1]
        s3 == IF Includes(stepsString, ClassifyTicket)
              THEN Append(s2, ThinkingStep(d3[1], "classify", Str("Ticket Classification"),
                              Str("Categorizing ticket using ML classifier"), "completed",
                              Some(RandomDuration(d3[2], 500, 100))))
              ELSE s2
        d4 == draw[1]
    IN IF Len(s3) = 0
       THEN Append(s3, ThinkingStep(d4[1], "reasoning", Str("Agent Reasoning"),
                           Str("Processing request with Gemini LLM"), "completed",
                           Some(RandomDuration(d4[2], 1500, 500))))
       ELSE s3

\* addThinkingStep (lines 91-95): the step with its fresh id appended
addThinkingStep(steps, id, step) ==
    Append(steps, ThinkingStep(id, step.type, step.title, step.description,
                               step.status, step.duration))

\* updateThinkingStep without the step.id === id test of line 99
updateThinkingStep_EveryStep(steps, id, updates) ==
    [i \in 1..Len(steps) |->
        [f \in DOMAIN steps[i] |->
            IF f \in DOMAIN updates THEN updates[f] ELSE steps[i][f]]]

\* updateThinkingStep if it added a step when no step has that id
updateThinkingStep_Upserts(steps, id, updates) ==
    IF \E i \in 1..Len(steps) : steps[i].id = id
    THEN [i \in 1..Len(steps) |->
             IF steps[i].id = id
             THEN [f \in DOMAIN steps[i] |->
                      IF f \in DOMAIN updates THEN updates[f] ELSE steps[i][f]]
             ELSE steps[i]]
    ELSE Append(steps,
                [f \in {"id", "type", "title", "description", "status", "duration"} |->
                    IF f \in DOMAIN updates THEN updates[f]
                    ELSE IF f = "id" THEN id
                    ELSE IF f = "type" THEN "reasoning"
                    ELSE IF f = "duration" THEN None
                    ELSE EmptyStr])

\* updateThinkingStep (lines 97-101): {...step, ...updates} on every step with that id
updateThinkingStep(steps, id, updates) ==
    [i \in 1..Len(steps) |->
        IF steps[i].id = id
        THEN [f \in DOMAIN steps[i] |->
                 IF f \in DOMAIN updates THEN updates[f] ELSE steps[i][f]]
        ELSE steps[i]]

----------------------------------------------------------------------------
(* Inputs *)

\* the content argument of sendMessage
Contents == {EmptyStr, <<" ", " ">>, <<"hello">>}

\* the query argument of uploadFile
Queries == {EmptyStr, <<"summarise">>}

NoFile == [present |-> FALSE, name |-> EmptyStr, type |-> EmptyStr]
File(name, type) == [present |-> TRUE, name |-> name, type |-> type]

\* the file argument of uploadFile (null, or a File with its name and media type)
Files == {NoFile, File(Str("call.mp3"), <<"audio", "/mpeg">>)}

\* what the transport does with a request: fetch rejects, or it resolves with a
\* response whose body is not JSON, is the JSON value null, or is a JSON object.
\* intermediate_steps is the field of the object when it is a string, number
\* when it is a JSON number (the type ProcessResponse is not checked at run
\* time, line 135)
Outcome(kind, ok, json, response, steps) ==
    [kind |-> kind, ok |-> ok, json |-> json, response |-> response,
     intermediate_steps |-> steps, number |-> None]

\* a JSON object whose intermediate_steps is the number n
NumberSteps(ok, response, n) ==
    [Outcome("response", ok, "object", response, None) EXCEPT !.number = Some(n)]

NetworkError == Outcome("reject", FALSE, "none", None, None)

\* 2xx responses: the JSON value null, objects with and without the fields, and
\* objects whose intermediate_steps is not a string
OkResponses ==
    { Outcome("response", TRUE, "null", None, None),
      Outcome("response", TRUE, "object", None, None),
      Outcome("response", TRUE, "object", Some(EmptyStr), Some(EmptyStr)),
      Outcome("response", TRUE, "object", Some(Str("hi there")), Some(ClassifyTicket)),
      NumberSteps(TRUE, Some(Str("hi there")), 42),
      NumberSteps(TRUE, None, 42),
      NumberSteps(TRUE, None, 0) }

\* non-2xx responses: a body that is not JSON (a gateway's HTML page) and a JSON
\* error object, which has neither response nor intermediate_steps
ErrorResponses ==
    { Outcome("response", FALSE, "invalid", None, None),
      Outcome("response", FALSE, "object", None, None) }

Outcomes == {NetworkError} \cup OkResponses \cup ErrorResponses

\* if (x) on an optional string
Truthy(opt) == opt # None /\ opt[1] # EmptyStr

\* if (x) on an optional number
TruthyNumber(opt) == opt # None /\ opt[1] # 0

\* if (data.intermediate_steps) passes (line 139) and parseIntermediateSteps
\* calls includes on a value that has no such method (line 44): TypeError
ParseThrows(out) == out.json = "object" /\ TruthyNumber(out.number)

\* the draws parseIntermediateSteps makes when a handler resumes with this outcome
SettleDraws(out, inUse) ==
    IF out.kind = "response" /\ out.json = "object" /\ Truthy(out.intermediate_steps)
    THEN Draws(out.intermediate_steps[1], inUse)
    ELSE {<<>>}

----------------------------------------------------------------------------
(* History *)

\* another handler has changed the message sequence while these runs were suspended
MarkDirty(runs) == { [r EXCEPT !.dirty = TRUE] : r \in runs }

\* the handler that ran last: its name, whether it went on (a call: past the
\* guard; a resumed handler: the try block ran to its end), agentStatus when it
\* started and the values it wrote to it
Event(op, accepted, writes) ==
    [op |-> op, accepted |-> accepted, from |-> agentStatus, writes |-> writes]

Subs(runs) == { r.sub : r \in runs }

\* the ids held by the messages, and by the steps and the suspended handlers
MessageIds == { messages[i].id : i \in DOMAIN messages }
StepIds == { thinkingSteps[i].id : i \in DOMAIN thinkingSteps } \cup
           { r.stepId : r \in inflight }

----------------------------------------------------------------------------
(* State after useAgent() is first rendered (lines 34-37) *)

Init ==
    /\ messages = <<>>
    /\ isProcessing = FALSE
    /\ agentStatus = "ready"
    /\ thinkingSteps = <<>>
    /\ renderedIsProcessing = FALSE
    /\ inflight = {}
    /\ timers = {}
    /\ origin = <<>>
    /\ nAccepted = 0
    /\ nFetch = 0
    /\ event = [op |-> "init", accepted |-> FALSE, from |-> "ready",
                writes |-> <<>>]
    /\ trace = EmptyStr
    /\ parsed = None
    /\ mediaType = EmptyStr
    /\ category = None
    /\ uploadedFile = <<>>
    /\ queryText = <<>>
    /\ intervals = <<>>
    /\ onUploadCall = <<>>
    /\ renderedUploadedFile = <<>>
    /\ renderedQuery = <<>>

\* where a request goes: the method and the path after API_BASE_URL
Endpoint(method, path) == [method |-> method, path |-> path]

\* the Response object fetch resolves with; only its ok flag is modelled, and
\* the handlers never read it
Response(ok) == [ok |-> ok]

\* a suspended handler run: its local variables, the form it sent and where it
\* sent it, the response once fetch has resolved (absent while the run waits at
\* await fetch(...), present while it waits at await response.json()), and
\* (history) the message sequence before it ran
Run(op, stepId, fileName, form, endpoint) ==
    [sub |-> nAccepted + 1, op |-> op, stepId |-> stepId, fileName |-> fileName,
     form |-> form, endpoint |-> endpoint, response |-> None,
     before |-> messages, dirty |-> FALSE]

\* what the transport delivers ends the await at which the run is suspended:
\* fetch rejecting ends await fetch(...); a body, or the failure to parse it,
\* ends await response.json() of the response that fetch resolved with
Awaits(r, out) ==
    IF out.kind = "reject" THEN r.response = None
                           ELSE r.response = Some(Response(out.ok))

----------------------------------------------------------------------------
(* sendMessage (lines 103-172) *)

SendMessageError ==
    Str("I encountered an error processing your request. Please ensure the backend server is running.")

\* the test of line 104 without trim()
sendMessageValid_NoTrim(content) == content # EmptyStr

\* !content.trim() (line 104)
sendMessageValid(content) == Trim(content) # EmptyStr

\* the guard of line 104 without its isProcessing test
sendMessageRejects_NoGate(content) == ~sendMessageValid(content)

\* the guard of line 104; isProcessing is the value the callback closed over
sendMessageRejects(content) == ~sendMessageValid(content) \/ renderedIsProcessing

\* sendMessage if it posted to the text-only chat endpoint
sendMessage_ChatEndpoint(content) ==
    IF sendMessageRejects(content)
    THEN /\ event' = Event("sendMessage", FALSE, <<>>)
         /\ UNCHANGED <<hookState, renderedIsProcessing, inflight, timers,
                        origin, nAccepted, nFetch>>
    ELSE /\ nAccepted < MaxSubmissions
         /\ \E userId \in generateId(MessageIds), thinkingId \in generateId(StepIds) :
              /\ messages' = Append(messages,
                                 Message(userId, "user", content, None))
              /\ isProcessing' = TRUE
              /\ agentStatus' = "executing"
              /\ thinkingSteps' =
                     addThinkingStep(thinkingSteps, thinkingId,
                         [type |-> "reasoning", title |-> Str("Processing Request"),
                          description |-> Str("Analyzing your message..."),
                          status |-> "running", duration |-> None])
              /\ inflight' = MarkDirty(inflight) \cup
                     {Run("sendMessage", thinkingId, EmptyStr,
                          [query |-> Some(content), file |-> None],
                          Endpoint("POST", Str("/api/agents/chat")))}
         /\ origin' = Append(origin, <<nAccepted + 1, "user">>)
         /\ nAccepted' = nAccepted + 1
         /\ nFetch' = nFetch + 1
         /\ event' = Event("sendMessage", TRUE, <<"thinking", "executing">>)
         /\ UNCHANGED <<renderedIsProcessing, timers>>

\* lines 104-133: from the call to the suspension at await fetch(...)
sendMessage(content) ==
    IF sendMessageRejects(content)
    THEN /\ event' = Event("sendMessage", FALSE, <<>>)
         /\ UNCHANGED <<hookState, renderedIsProcessing, inflight, timers,
                        origin, nAccepted, nFetch>>
    ELSE /\ nAccepted < MaxSubmissions
         /\ \E userId \in generateId(MessageIds), thinkingId \in generateId(StepIds) :
              /\ messages' = Append(messages,
                                 Message(userId, "user", content, None))
              /\ isProcessing' = TRUE
              /\ agentStatus' = "executing"
              /\ thinkingSteps' =
                     addThinkingStep(thinkingSteps, thinkingId,
                         [type |-> "reasoning", title |-> Str("Processing Request"),
                          description |-> Str("Analyzing your message..."),
                          status |-> "running", duration |-> None])
              /\ inflight' = MarkDirty(inflight) \cup
                     {Run("sendMessage", thinkingId, EmptyStr,
                          [query |-> Some(content), file |-> None],
                          Endpoint("POST", Str("/api/agents/process")))}
         /\ origin' = Append(origin, <<nAccepted + 1, "user">>)
         /\ nAccepted' = nAccepted + 1
         /\ nFetch' = nFetch + 1
         /\ event' = Event("sendMessage", TRUE, <<"thinking", "executing">>)
         /\ UNCHANGED <<renderedIsProcessing, timers>>

\* the try block without the updateThinkingStep of line 137
sendMessageTry_NoUpdate(r, out, newId, draw) ==
    /\ thinkingSteps' =
           IF Truthy(out.intermediate_steps)
           THEN thinkingSteps \o parseIntermediateSteps(out.intermediate_steps[1], draw)
           ELSE thinkingSteps
    /\ messages' = Append(messages, Message(newId, "assistant",
           OrElse(out.response, Str("I processed your request.")), None))
    /\ agentStatus' = "ready"
    /\ event' = Event("settled", TRUE, <<"ready">>)
    /\ UNCHANGED <<timers, nFetch>>

\* the try block if it put the reply before the other messages
sendMessageTry_PrependsReply(r, out, newId, draw) ==
    /\ thinkingSteps' =
           LET completed == updateThinkingStep(thinkingSteps, r.stepId,
                                [status |-> "completed", duration |-> Some(1200)])
           IN IF Truthy(out.intermediate_steps)
              THEN completed \o parseIntermediateSteps(out.intermediate_steps[1], draw)
              ELSE completed
    /\ messages' = <<Message(newId, "assistant",
           OrElse(out.response, Str("I processed your request.")), None)>> \o messages
    /\ agentStatus' = "ready"
    /\ event' = Event("settled", TRUE, <<"ready">>)
    /\ UNCHANGED <<timers, nFetch>>

\* the try block if it pushed a generic reasoning step whenever the response
\* carried no trace
sendMessageTry_AlwaysSynthesizes(r, out, newId, draw) ==
    /\ thinkingSteps' =
           LET completed == updateThinkingStep(thinkingSteps, r.stepId,
                                [status |-> "completed", duration |-> Some(1200)])
           IN IF Truthy(out.intermediate_steps)
              THEN completed \o parseIntermediateSteps(out.intermediate_steps[1], draw)
              ELSE Append(completed,
                          ThinkingStep(newId, "reasoning", Str("Agent Reasoning"),
                                       EmptyStr, "completed", None))
    /\ messages' = Append(messages, Message(newId, "assistant",
           OrElse(out.response, Str("I processed your request.")), None))
    /\ agentStatus' = "ready"
    /\ event' = Event("settled", TRUE, <<"ready">>)
    /\ UNCHANGED <<timers, nFetch>>

\* lines 137-152: the rest of the try block, once data is a parsed JSON value
\* other than null
sendMessageTry(r, out, newId, draw) ==
    /\ thinkingSteps' =
           LET completed == updateThinkingStep(thinkingSteps, r.stepId,
                                [status |-> "completed", duration |-> Some(1200)])
           IN IF Truthy(out.intermediate_steps)
              THEN completed \o parseIntermediateSteps(out.intermediate_steps[1], draw)
              ELSE completed
    /\ messages' = Append(messages, Message(newId, "assistant",
           OrElse(out.response, Str("I processed your request.")), None))
    /\ agentStatus' = "ready"
    /\ event' = Event("settled", TRUE, <<"ready">>)
    /\ UNCHANGED <<timers, nFetch>>

\* the catch block without the setTimeout of line 168
sendMessageCatch_NoReset(r, steps, newId) ==
    /\ thinkingSteps' = updateThinkingStep(steps, r.stepId, [status |-> "error"])
    /\ messages' = Append(messages,
                          Message(newId, "assistant", SendMessageError, None))
    /\ agentStatus' = "error"
    /\ timers' = timers
    /\ event' = Event("settled", FALSE, <<"error">>)
    /\ UNCHANGED nFetch

\* the catch block if it issued the request again
sendMessageCatch_Retries(r, steps, newId) ==
    /\ thinkingSteps' = updateThinkingStep(steps, r.stepId, [status |-> "error"])
    /\ messages' = Append(messages,
                          Message(newId, "assistant", SendMessageError, None))
    /\ agentStatus' = "error"
    /\ timers' = timers \cup {r.sub}
    /\ event' = Event("settled", FALSE, <<"error">>)
    /\ nFetch' = nFetch + 1

\* lines 153-168: the catch block; steps is the step sequence at the throw
sendMessageCatch(r, steps, newId) ==
    /\ thinkingSteps' = updateThinkingStep(steps, r.stepId, [status |-> "error"])
    /\ messages' = Append(messages,
                          Message(newId, "assistant", SendMessageError, None))
    /\ agentStatus' = "error"
    /\ timers' = timers \cup {r.sub}
    /\ event' = Event("settled", FALSE, <<"error">>)
    /\ UNCHANGED nFetch

\* the handler without its finally block
sendMessageFinally_Skipped == isProcessing' = isProcessing

\* lines 169-171: the finally block
sendMessageFinally == isProcessing' = FALSE

\* lines 130-135: fetch resolves; the handler resumes, calls response.json() and
\* suspends again.  No state is read or written in between
sendMessageFetched(r, ok) ==
    /\ r.op = "sendMessage" /\ r.response = None
    /\ inflight' = (inflight \ {r}) \cup {[r EXCEPT !.response = Some(Response(ok))]}
    /\ UNCHANGED <<hookState, renderedIsProcessing, timers, origin, nAccepted,
                   nFetch, event>>

\* the resumed handler if it read data?.intermediate_steps, so that a null body
\* went down the try block like an object without fields
sendMessageSettled_NullIsEmpty(r, out, newId, draw) ==
    /\ r.op = "sendMessage" /\ Awaits(r, out)
    /\ IF out.kind = "reject" \/ out.json = "invalid"
       THEN sendMessageCatch(r, thinkingSteps, newId)
       ELSE sendMessageTry(r, out, newId, draw)
    /\ sendMessageFinally
    /\ inflight' = MarkDirty(inflight \ {r})
    /\ origin' = Append(origin, <<r.sub, "assistant">>)
    /\ UNCHANGED <<renderedIsProcessing, nAccepted>>

\* lines 130-171: the handler resumes for the last time.  Either fetch throws
\* (line 130) and the catch block runs, or response.json() settles (line 135):
\* it throws, or data is null and reading data.intermediate_steps throws (line
\* 139, after line 137 has run), or intermediate_steps is not a string and
\* parseIntermediateSteps throws (line 44, called from line 140), or the try
\* block runs to its end; response.ok is not read
sendMessageSettled(r, out, newId, draw) ==
    /\ r.op = "sendMessage" /\ Awaits(r, out)
    /\ IF out.kind = "reject" \/ out.json = "invalid"
       THEN sendMessageCatch(r, thinkingSteps, newId)
       ELSE IF out.json = "null" \/ ParseThrows(out)
       THEN sendMessageCatch(r,
                updateThinkingStep(thinkingSteps, r.stepId,
                    [status |-> "completed", duration |-> Some(1200)]),
                newId)
       ELSE sendMessageTry(r, out, newId, draw)
    /\ sendMessageFinally
    /\ inflight' = MarkDirty(inflight \ {r})
    /\ origin' = Append(origin, <<r.sub, "assistant">>)
    /\ UNCHANGED <<renderedIsProcessing, nAccepted>>

----------------------------------------------------------------------------
(* uploadFile (lines 174-253) *)

UploadFileError ==
    Str("Failed to process the file. Please ensure the backend server is running and try again.")

\* !file (line 175)
uploadFileValid(file) == file.present

\* the guard of line 175; isProcessing is the value the callback closed over
uploadFileRejects(file) == ~uploadFileValid(file) \/ renderedIsProcessing

\* lines 189-191 if application/pdf were tested as a prefix too
fileType_PdfPrefix(type) ==
    IF StartsWith(type, Str("audio")) THEN "audio"
    ELSE IF StartsWith(type, Str("application/pdf")) THEN "document"
    ELSE IF StartsWith(type, Str("image")) THEN "document"
    ELSE "general"

\* lines 189-191
fileType(type) ==
    IF StartsWith(type, Str("audio")) THEN "audio"
    ELSE IF type = Str("application/pdf") THEN "document"
    ELSE IF StartsWith(type, Str("image")) THEN "document"
    ELSE "general"

\* uploadFile if line 203 appended query without the default
uploadFile_SendsRawQuery(file, query) ==
    IF uploadFileRejects(file)
    THEN /\ event' = Event("uploadFile", FALSE, <<>>)
         /\ UNCHANGED <<hookState, renderedIsProcessing, inflight, timers,
                        origin, nAccepted, nFetch>>
    ELSE /\ nAccepted < MaxSubmissions
         /\ \E userId \in generateId(MessageIds), uploadStepId \in generateId(StepIds) :
              /\ messages' = Append(messages,
                     Message(userId, "user",
                             OrElse(Some(query), Str("Analyze this file")),
                             Some(file.name)))
              /\ isProcessing' = TRUE
              /\ agentStatus' = "executing"
              /\ thinkingSteps' =
                     addThinkingStep(thinkingSteps, uploadStepId,
                         [type |-> fileType(file.type),
                          title |-> IF fileType(file.type) = "audio"
                                    THEN Str("Audio Processing")
                                    ELSE Str("Document Processing"),
                          description |-> Str("Uploading ") \o file.name \o Str("..."),
                          status |-> "running", duration |-> None])
              /\ inflight' = MarkDirty(inflight) \cup
                     {Run("uploadFile", uploadStepId, file.name,
                          [query |-> Some(query),
                           file |-> Some(file.name)],
                          Endpoint("POST", Str("/api/agents/process")))}
         /\ origin' = Append(origin, <<nAccepted + 1, "user">>)
         /\ nAccepted' = nAccepted + 1
         /\ nFetch' = nFetch + 1
         /\ event' = Event("uploadFile", TRUE, <<"thinking", "executing">>)
         /\ UNCHANGED <<renderedIsProcessing, timers>>

\* lines 175-210: from the call to the suspension at await fetch(...)
uploadFile(file, query) ==
    IF uploadFileRejects(file)
    THEN /\ event' = Event("uploadFile", FALSE, <<>>)
         /\ UNCHANGED <<hookState, renderedIsProcessing, inflight, timers,
                        origin, nAccepted, nFetch>>
    ELSE /\ nAccepted < MaxSubmissions
         /\ \E userId \in generateId(MessageIds), uploadStepId \in generateId(StepIds) :
              /\ messages' = Append(messages,
                     Message(userId, "user",
                             OrElse(Some(query), Str("Analyze this file")),
                             Some(file.name)))
              /\ isProcessing' = TRUE
              /\ agentStatus' = "executing"
              /\ thinkingSteps' =
                     addThinkingStep(thinkingSteps, uploadStepId,
                         [type |-> fileType(file.type),
                          title |-> IF fileType(file.type) = "audio"
                                    THEN Str("Audio Processing")
                                    ELSE Str("Document Processing"),
                          description |-> Str("Uploading ") \o file.name \o Str("..."),
                          status |-> "running", duration |-> None])
              /\ inflight' = MarkDirty(inflight) \cup
                     {Run("uploadFile", uploadStepId, file.name,
                          [query |-> Some(OrElse(Some(query), Str("Analyze this file"))),
                           file |-> Some(file.name)],
                          Endpoint("POST", Str("/api/agents/process")))}
         /\ origin' = Append(origin, <<nAccepted + 1, "user">>)
         /\ nAccepted' = nAccepted + 1
         /\ nFetch' = nFetch + 1
         /\ event' = Event("uploadFile", TRUE, <<"thinking", "executing">>)
         /\ UNCHANGED <<renderedIsProcessing, timers>>

\* the try block of uploadFile without the || default of line 228
uploadFileTry_NoDefault(r, out, newId, draw) ==
    /\ thinkingSteps' =
           LET completed == updateThinkingStep(thinkingSteps, r.stepId,
                                [status |-> "completed",
                                 description |-> Str("Processed ") \o r.fileName,
                                 duration |-> Some(2500)])
           IN IF Truthy(out.intermediate_steps)
              THEN completed \o parseIntermediateSteps(out.intermediate_steps[1], draw)
              ELSE completed
    /\ messages' = Append(messages, Message(newId, "assistant",
           IF out.response = None THEN EmptyStr ELSE out.response[1], None))
    /\ agentStatus' = "ready"
    /\ event' = Event("settled", TRUE, <<"ready">>)
    /\ UNCHANGED <<timers, nFetch>>

\* lines 214-233: the rest of the try block, once data is a parsed JSON value
\* other than null
uploadFileTry(r, out, newId, draw) ==
    /\ thinkingSteps' =
           LET completed == updateThinkingStep(thinkingSteps, r.stepId,
                                [status |-> "completed",
                                 description |-> Str("Processed ") \o r.fileName,
                                 duration |-> Some(2500)])
           IN IF Truthy(out.intermediate_steps)
              THEN completed \o parseIntermediateSteps(out.intermediate_steps[1], draw)
              ELSE completed
    /\ messages' = Append(messages, Message(newId, "assistant",
           OrElse(out.response, Str("File processed successfully.")), None))
    /\ agentStatus' = "ready"
    /\ event' = Event("settled", TRUE, <<"ready">>)
    /\ UNCHANGED <<timers, nFetch>>

\* the catch block of uploadFile with the error text of sendMessage
uploadFileCatch_SendMessageText(r, steps, newId) ==
    /\ thinkingSteps' = updateThinkingStep(steps, r.stepId, [status |-> "error"])
    /\ messages' = Append(messages,
                          Message(newId, "assistant", SendMessageError, None))
    /\ agentStatus' = "error"
    /\ timers' = timers \cup {r.sub}
    /\ event' = Event("settled", FALSE, <<"error">>)
    /\ UNCHANGED nFetch

\* lines 234-249: the catch block; steps is the step sequence at the throw
uploadFileCatch(r, steps, newId) ==
    /\ thinkingSteps' = updateThinkingStep(steps, r.stepId, [status |-> "error"])
    /\ messages' = Append(messages,
                          Message(newId, "assistant", UploadFileError, None))
    /\ agentStatus' = "error"
    /\ timers' = timers \cup {r.sub}
    /\ event' = Event("settled", FALSE, <<"error">>)
    /\ UNCHANGED nFetch

\* the upload handler without its finally block
uploadFileFinally_Skipped == isProcessing' = isProcessing

\* lines 250-252: the finally block
uploadFileFinally == isProcessing' = FALSE

\* lines 207-212: fetch resolves; the handler resumes, calls response.json() and
\* suspends again.  No state is read or written in between
uploadFileFetched(r, ok) ==
    /\ r.op = "uploadFile" /\ r.response = None
    /\ inflight' = (inflight \ {r}) \cup {[r EXCEPT !.response = Some(Response(ok))]}
    /\ UNCHANGED <<hookState, renderedIsProcessing, timers, origin, nAccepted,
                   nFetch, event>>

\* lines 207-252: the handler resumes for the last time.  Either fetch throws
\* (line 207) and the catch block runs, or response.json() settles (line 212):
\* it throws, or data is null and reading data.intermediate_steps throws (line
\* 220, after lines 214-218 have run), or intermediate_steps is not a string
\* and parseIntermediateSteps throws (line 44, called from line 221), or the
\* try block runs to its end; response.ok is not read
uploadFileSettled(r, out, newId, draw) ==
    /\ r.op = "uploadFile" /\ Awaits(r, out)
    /\ IF out.kind = "reject" \/ out.json = "invalid"
       THEN uploadFileCatch(r, thinkingSteps, newId)
       ELSE IF out.json = "null" \/ ParseThrows(out)
       THEN uploadFileCatch(r,
                updateThinkingStep(thinkingSteps, r.stepId,
                    [status |-> "completed",
                     description |-> Str("Processed ") \o r.fileName,
                     duration |-> Some(2500)]),
                newId)
       ELSE uploadFileTry(r, out, newId, draw)
    /\ uploadFileFinally
    /\ inflight' = MarkDirty(inflight \ {r})
    /\ origin' = Append(origin, <<r.sub, "assistant">>)
    /\ UNCHANGED <<renderedIsProcessing, nAccepted>>

----------------------------------------------------------------------------
(* The reset timer, clearMessages, and React's re-render *)

\* the callback of setTimeout(() => setAgentStatus("ready"), 3000) (lines 168, 249)
resetTimerFires(t) ==
    /\ t \in timers
    /\ agentStatus' = "ready"
    /\ timers' = timers \ {t}
    /\ event' = Event("timer", TRUE, <<"ready">>)
    /\ UNCHANGED <<messages, isProcessing, thinkingSteps, renderedIsProcessing,
                   inflight, origin, nAccepted, nFetch>>

\* clearMessages if it also released the gate and reset the status
clearMessages_ResetsGate ==
    /\ messages' = <<>>
    /\ thinkingSteps' = <<>>
    /\ isProcessing' = FALSE
    /\ agentStatus' = "ready"
    /\ origin' = <<>>
    /\ inflight' = MarkDirty(inflight)
    /\ event' = Event("clearMessages", TRUE, <<>>)
    /\ UNCHANGED <<renderedIsProcessing, timers, nAccepted, nFetch>>

\* clearMessages if it removed the last message instead of all of them
clearMessages_DropsLast ==
    /\ messages' = SubSeq(messages, 1, Len(messages) - 1)
    /\ thinkingSteps' = <<>>
    /\ origin' = SubSeq(origin, 1, Len(origin) - 1)
    /\ inflight' = MarkDirty(inflight)
    /\ event' = Event("clearMessages", TRUE, <<>>)
    /\ UNCHANGED <<isProcessing, agentStatus, renderedIsProcessing, timers,
                   nAccepted, nFetch>>

\* clearMessages (lines 255-258)
clearMessages ==
    /\ messages' = <<>>
    /\ thinkingSteps' = <<>>
    /\ origin' = <<>>
    /\ inflight' = MarkDirty(inflight)
    /\ event' = Event("clearMessages", TRUE, <<>>)
    /\ UNCHANGED <<isProcessing, agentStatus, renderedIsProcessing, timers,
                   nAccepted, nFetch>>

\* React renders the component again: useCallback(..., [isProcessing]) (lines 172,
\* 253) rebuilds both callbacks, which from now on read the current isProcessing
render ==
    /\ renderedIsProcessing # isProcessing
    /\ renderedIsProcessing' = isProcessing
    /\ UNCHANGED <<hookState, inflight, timers, origin, nAccepted, nFetch, event>>

----------------------------------------------------------------------------
(* Specification *)

SendMessage ==
    /\ \E content \in Contents : sendMessage(content)
    /\ UNCHANGED callVars

UploadFile ==
    /\ \E file \in Files, query \in Queries : uploadFile(file, query)
    /\ UNCHANGED callVars

SendMessageFetched ==
    /\ \E r \in inflight, ok \in BOOLEAN : sendMessageFetched(r, ok)
    /\ UNCHANGED callVars

UploadFileFetched ==
    /\ \E r \in inflight, ok \in BOOLEAN : uploadFileFetched(r, ok)
    /\ UNCHANGED callVars

SendMessageSettled ==
    /\ \E r \in inflight, out \in Outcomes, newId \in generateId(MessageIds) :
          \E draw \in SettleDraws(out, StepIds) : sendMessageSettled(r, out, newId, draw)
    /\ UNCHANGED callVars

UploadFileSettled ==
    /\ \E r \in inflight, out \in Outcomes, newId \in generateId(MessageIds) :
          \E draw \in SettleDraws(out, StepIds) : uploadFileSettled(r, out, newId, draw)
    /\ UNCHANGED callVars

ResetTimerFires ==
    /\ \E t \in timers : resetTimerFires(t)
    /\ UNCHANGED callVars

ClearMessages == clearMessages /\ UNCHANGED callVars

Render == render /\ UNCHANGED callVars

Next ==
    \/ SendMessage
    \/ UploadFile
    \/ SendMessageFetched
    \/ UploadFileFetched
    \/ SendMessageSettled
    \/ UploadFileSettled
    \/ ResetTimerFires
    \/ ClearMessages
    \/ Render

Spec == Init /\ [][Next]_vars

\* The transport settles every request, a scheduled timer fires, and React
\* renders after a state change; calls by the user are not forced.
FairSpec ==
    /\ Spec
    /\ WF_vars(SendMessageFetched)
    /\ WF_vars(UploadFileFetched)
    /\ WF_vars(SendMessageSettled)
    /\ WF_vars(UploadFileSettled)
    /\ WF_vars(ResetTimerFires)
    /\ WF_vars(Render)

----------------------------------------------------------------------------
(* parseIntermediateSteps called on its own, on any trace string *)

\* The chunks a trace string is made of: the three markers, other text, and a
\* marker in another case (String.prototype.includes compares case-sensitively).
\* No marker is part of another chunk or of a run of other chunks, so a marker
\* occurs in the string exactly where its chunk does.
TraceChunks ==
    {"transcribe_audio", "query_document", "classify_ticket", " then ",
     "Transcribe_Audio"}

\* the stepsString argument: every string of at most MaxTraceLen chunks
StepsStrings == UNION { [1..n -> TraceChunks] : n \in 0..MaxTraceLen }

\* a hook that is not used, and a trace string about to be parsed
ParseInit ==
    /\ messages = <<>>
    /\ isProcessing = FALSE
    /\ agentStatus = "ready"
    /\ thinkingSteps = <<>>
    /\ renderedIsProcessing = FALSE
    /\ inflight = {}
    /\ timers = {}
    /\ origin = <<>>
    /\ nAccepted = 0
    /\ nFetch = 0
    /\ event = [op |-> "init", accepted |-> FALSE, from |-> "ready",
                writes |-> <<>>]
    /\ trace \in StepsStrings
    /\ parsed = None
    /\ mediaType = EmptyStr
    /\ category = None
    /\ uploadedFile = <<>>
    /\ queryText = <<>>
    /\ intervals = <<>>
    /\ onUploadCall = <<>>
    /\ renderedUploadedFile = <<>>
    /\ renderedQuery = <<>>

\* parseIntermediateSteps(trace) runs and returns (lines 41-89)
ParseIntermediateSteps ==
    /\ parsed = None
    /\ \E draw \in Draws(trace, {}) :
          parsed' = Some(parseIntermediateSteps(trace, draw))
    /\ UNCHANGED <<messages, isProcessing, agentStatus, thinkingSteps,
                   renderedIsProcessing, inflight, timers, origin, nAccepted,
                   nFetch, event, trace, mediaType, category, uploadVars,
                   renderedUpload>>

ParseNext == ParseIntermediateSteps

ParseSpec == ParseInit /\ [][ParseNext]_vars

----------------------------------------------------------------------------
(* The fileType expression of uploadFile evaluated on its own, on any media type *)

\* The chunks a media type is made of.  A type starts with audio or image
\* exactly when that is its first chunk, and is application/pdf exactly when
\* that is its only chunk; Audio is audio in another case (startsWith compares
\* case-sensitively).
TypeChunks ==
    {"audio", "image", "application/pdf", "/mpeg", "Audio", "text/plain"}

\* file.type: every string of at most MaxTypeLen chunks, the empty one included
MediaTypes == UNION { [1..n -> TypeChunks] : n \in 0..MaxTypeLen }

\* a hook that is not used, and a media type about to be classified
FileTypeInit ==
    /\ messages = <<>>
    /\ isProcessing = FALSE
    /\ agentStatus = "ready"
    /\ thinkingSteps = <<>>
    /\ renderedIsProcessing = FALSE
    /\ inflight = {}
    /\ timers = {}
    /\ origin = <<>>
    /\ nAccepted = 0
    /\ nFetch = 0
    /\ event = [op |-> "init", accepted |-> FALSE, from |-> "ready",
                writes |-> <<>>]
    /\ trace = EmptyStr
    /\ parsed = None
    /\ mediaType \in MediaTypes
    /\ category = None
    /\ uploadedFile = <<>>
    /\ queryText = <<>>
    /\ intervals = <<>>
    /\ onUploadCall = <<>>
    /\ renderedUploadedFile = <<>>
    /\ renderedQuery = <<>>

\* const fileType = ... (lines 189-191)
ClassifyFile ==
    /\ category = None
    /\ category' = Some(fileType(mediaType))
    /\ UNCHANGED <<messages, isProcessing, agentStatus, thinkingSteps,
                   renderedIsProcessing, inflight, timers, origin, nAccepted,
                   nFetch, event, trace, parsed, mediaType, uploadVars,
                   renderedUpload>>

FileTypeNext == ClassifyFile

FileTypeSpec == FileTypeInit /\ [][FileTypeNext]_vars

----------------------------------------------------------------------------
(* One sendMessage on a fresh session, answered with any text and any trace *)

\* data.response of a 2xx answer
Responses == {Str("hi there"), Str("done")}

\* data.intermediate_steps of a 2xx answer: the empty string, text without a
\* marker, and every combination of the markers, in table order and out of it
Traces ==
    { EmptyStr, <<" then ">>,
      <<"transcribe_audio">>, <<"query_document">>, <<"classify_ticket">>,
      <<"classify_ticket", " then ", "transcribe_audio">>,
      <<"query_document", "transcribe_audio">>,
      <<"query_document", " then ", "classify_ticket">>,
      <<"classify_ticket", "query_document", "transcribe_audio">> }

\* 2xx answers with a response text and an intermediate_steps string
FreshOutcomes ==
    { Outcome("response", TRUE, "object", Some(R), Some(T)) :
        R \in Responses, T \in Traces }

\* the first call of sendMessage on the session
FreshSendMessage == nAccepted = 0 /\ SendMessage

\* its request is answered and the handler resumes (lines 135-171)
\* fetch resolves with a 2xx response
FreshFetched ==
    /\ \E r \in inflight : sendMessageFetched(r, TRUE)
    /\ UNCHANGED callVars

FreshSettled ==
    /\ \E r \in inflight, out \in FreshOutcomes, newId \in generateId(MessageIds) :
          \E draw \in SettleDraws(out, StepIds) : sendMessageSettled(r, out, newId, draw)
    /\ UNCHANGED callVars

FreshNext ==
    \/ FreshSendMessage
    \/ FreshFetched
    \/ FreshSettled
    \/ Render

FreshSpec == Init /\ [][FreshNext]_vars

----------------------------------------------------------------------------
(* The FileUpload component (src/frontend/components/FileUpload.tsx) *)

\* progress is a float; it is kept in thousandths, which is exact for the
\* samples of Math.random() drawn here
Thousandths == 1000
Full == 100 * Thousandths

\* Math.random() in thousandths, as drawn by a tick (line 69)
TickSamples == {0, 999}

\* the files the user drops; a name is a string whose dots are chunks
DroppedFiles ==
    { File(<<"call", ".", "MP3">>, <<"audio", "/mpeg">>),
      File(<<"report", ".", "v2", ".", "pdf">>, <<"application/pdf">>),
      File(<<"notes">>, <<"audio", "/mpeg">>) }

\* the acceptedFiles argument of onDrop: empty when react-dropzone rejected
\* the file (lines 80-85)
AcceptedFiles == {<<>>} \cup { <<f>> : f \in DroppedFiles }

\* String.prototype.toLowerCase on the chunks used here
ToLowerCase(str) ==
    [i \in DOMAIN str |->
        CASE str[i] = "MP3" -> "mp3"
          [] str[i] = "PDF" -> "pdf"
          [] OTHER -> str[i]]

\* name.split(".").pop(): what follows the last dot, the whole name without one
LastSegment(name) ==
    SubSeq(name, Max({ i \in DOMAIN name : name[i] = "." }) + 1, Len(name))

\* getFileType (lines 33-39)
getFileType(file) ==
    LET ext == ToLowerCase(LastSegment(file.name))
    IN IF ext \in { <<"mp3">>, <<"wav">>, <<"m4a">>, <<"flac">>, <<"ogg">>, <<"webm">> }
       THEN "audio"
       ELSE IF ext \in { <<"pdf">> } THEN "document"
       ELSE IF ext \in { <<"jpg">>, <<"jpeg">>, <<"png">>, <<"bmp">>, <<"tiff">>,
                         <<"webp">> }
       THEN "image"
       ELSE "unknown"

\* interface UploadedFile (lines 23-27)
UploadedFile(file, type, progress) ==
    [file |-> file, type |-> type, progress |-> progress]

\* a setInterval timer of onDrop with the progress variable of its closure
Interval(progress, active) == [progress |-> progress, active |-> active]

\* onDrop (lines 59-76): the file is shown with progress 0 and an interval is
\* started with a progress of its own
onDrop(acceptedFiles) ==
    IF acceptedFiles = <<>>
    THEN UNCHANGED uploadVars
    ELSE /\ uploadedFile' = Some(UploadedFile(acceptedFiles[1],
                                              getFileType(acceptedFiles[1]), 0))
         /\ intervals' = Append(intervals, Interval(0, TRUE))
         /\ UNCHANGED <<queryText, onUploadCall>>

\* the callback of setInterval (lines 68-75): it advances its own progress,
\* stops itself at 100 and writes the progress into whatever file is shown
intervalTick(i, rnd) ==
    LET raised == intervals[i].progress + rnd * 30
        done == raised >= Full
        progress == IF done THEN Full ELSE raised
    IN /\ intervals[i].active
       /\ intervals' = [intervals EXCEPT ![i] = Interval(progress, ~done)]
       /\ uploadedFile' =
              IF uploadedFile # None
              THEN Some([uploadedFile[1] EXCEPT !.progress = progress])
              ELSE None
       /\ UNCHANGED <<queryText, onUploadCall>>

\* handleSubmit (lines 89-94).  The function is built by each render and reads
\* uploadedFile, query and isProcessing as that render had them: isProcessing is
\* the prop, the hook's isProcessing of that render, and onUpload is the hook's
\* uploadFile of that render (page.tsx, line 169), which runs up to its
\* await fetch(...) inside the call
handleSubmit ==
    IF renderedUploadedFile = None \/ renderedIsProcessing
    THEN UNCHANGED <<uploadVars, hookVars>>
    ELSE /\ uploadFile(renderedUploadedFile[1].file,
                       OrElse(Some(renderedQuery), Str("Analyze this file")))
         /\ onUploadCall' =
               Some([file |-> renderedUploadedFile[1].file,
                     query |-> OrElse(Some(renderedQuery),
                                      Str("Analyze this file"))])
         /\ uploadedFile' = None
         /\ queryText' = EmptyStr
         /\ UNCHANGED intervals

\* handleRemove (lines 96-99)
handleRemove ==
    /\ uploadedFile' = None
    /\ queryText' = EmptyStr
    /\ UNCHANGED <<intervals, onUploadCall>>

\* onChange of the query input (line 200)
setQuery(text) ==
    /\ queryText' = text
    /\ UNCHANGED <<uploadedFile, intervals, onUploadCall>>

\* React renders the page and the component below it: the elements on screen
\* and their handlers are from now on those of the current state
renderFileUpload ==
    /\ <<renderedIsProcessing, renderedUploadedFile, renderedQuery>>
          # <<isProcessing, uploadedFile, queryText>>
    /\ renderedIsProcessing' = isProcessing
    /\ renderedUploadedFile' = uploadedFile
    /\ renderedQuery' = queryText
    /\ UNCHANGED <<hookState, inflight, timers, origin, nAccepted, nFetch, event>>

\* the variables the component's setters do not write
notUploadVars == <<hookVars, trace, parsed, mediaType, category, renderedUpload>>

\* the dropzone is on screen while the render shows no file (line 109) and is
\* disabled while the isProcessing prop is true (line 86)
OnDrop ==
    /\ renderedUploadedFile = None /\ ~renderedIsProcessing
    /\ Len(intervals) < MaxDrops
    /\ \E acceptedFiles \in AcceptedFiles : onDrop(acceptedFiles)
    /\ UNCHANGED notUploadVars

IntervalTick ==
    /\ \E i \in DOMAIN intervals, rnd \in TickSamples : intervalTick(i, rnd)
    /\ UNCHANGED notUploadVars

\* the submit button is on screen once the progress the render shows is 100
\* (line 191) and is disabled while isProcessing (line 212)
HandleSubmit ==
    /\ renderedUploadedFile # None /\ renderedUploadedFile[1].progress >= Full
    /\ ~renderedIsProcessing
    /\ handleSubmit
    /\ UNCHANGED <<trace, parsed, mediaType, category, renderedUpload>>

\* the remove button is on screen while the render shows a file (lines 169-176)
HandleRemove ==
    /\ renderedUploadedFile # None
    /\ handleRemove
    /\ UNCHANGED notUploadVars

\* the query input is on screen once the progress the render shows is 100
\* (line 191)
SetQuery ==
    /\ renderedUploadedFile # None /\ renderedUploadedFile[1].progress >= Full
    /\ \E text \in Queries : text # queryText /\ setQuery(text)
    /\ UNCHANGED notUploadVars

RenderFileUpload ==
    /\ renderFileUpload
    /\ UNCHANGED <<uploadVars, trace, parsed, mediaType, category>>

\* what the transport does with the request of a submitted file: fetch rejects,
\* or the backend answers with an object
FileUploadOutcomes ==
    { NetworkError, Outcome("response", TRUE, "object", Some(Str("hi there")), None) }

FileUploadFetched ==
    /\ \E r \in inflight : uploadFileFetched(r, TRUE)
    /\ UNCHANGED callVars

FileUploadSettled ==
    /\ \E r \in inflight, out \in FileUploadOutcomes, newId \in generateId(MessageIds) :
          \E draw \in SettleDraws(out, StepIds) : uploadFileSettled(r, out, newId, draw)
    /\ UNCHANGED callVars

\* the component's handlers, and what follows in the hook from the uploadFile
\* call of handleSubmit: the request settles, the reset timer fires, and the
\* page renders the component again with the current state
FileUploadNext ==
    \/ OnDrop
    \/ IntervalTick
    \/ HandleSubmit
    \/ HandleRemove
    \/ SetQuery
    \/ FileUploadFetched
    \/ FileUploadSettled
    \/ ResetTimerFires
    \/ RenderFileUpload

FileUploadSpec == Init /\ [][FileUploadNext]_vars

\* a tick in which Math.random() is not 0
IntervalAdvances ==
    /\ \E i \in DOMAIN intervals, rnd \in TickSamples \ {0} : intervalTick(i, rnd)
    /\ UNCHANGED notUploadVars

\* setInterval keeps calling back, and Math.random() does not return 0 for ever
FileUploadFairSpec == FileUploadSpec /\ WF_vars(IntervalAdvances)

\* every interval started is stopped in the end (clearInterval, line 72)
AllIntervalsStop == <>[](\A i \in DOMAIN intervals : ~intervals[i].active)

----------------------------------------------------------------------------
(* Properties *)

Calls == {"sendMessage", "uploadFile"}

\* the step resumes the suspended handler run r
Settles(r) == r \in inflight /\ r.sub \notin Subs(inflight')

\* C1: at most one request to the processing endpoint is outstanding, also when
\* sendMessage or uploadFile is called again before the hook has re-rendered.
C1_AtMostOneOutstanding == Cardinality(inflight) <= 1

\* C2: a sendMessage or uploadFile call made while isProcessing is true (the
\* value the hook returned and the callback reads) leaves messages,
\* thinkingSteps, agentStatus and isProcessing as they were, and issues no request.
C2_RejectedWhileProcessing ==
    [][(renderedIsProcessing /\ (SendMessage \/ UploadFile))
          => UNCHANGED <<hookState, inflight, timers, nFetch>>]_vars

\* a call has just been turned away by the gate, with a request in flight
C2_Witness ==
    /\ event.op \in Calls /\ ~event.accepted
    /\ renderedIsProcessing /\ isProcessing /\ inflight # {}
    /\ messages # <<>>

\* the step resumes r and the try block runs to its end
Succeeds(r) == Settles(r) /\ event'.op = "settled" /\ event'.accepted

\* the step resumes r and the catch block runs
Fails(r) == Settles(r) /\ event'.op = "settled" /\ ~event'.accepted

\* the step is a call that passed the guard
AcceptedCall == (SendMessage \/ UploadFile) /\ nAccepted' = nAccepted + 1

\* messages' is messages with one Message of that role appended
AppendsOne(role) ==
    /\ Len(messages') = Len(messages) + 1
    /\ SubSeq(messages', 1, Len(messages)) = messages
    /\ messages'[Len(messages')].role = role

\* messages' is the sequence r was submitted on, then one user Message, then one
\* assistant Message
SnapshotPlusPair(r) ==
    /\ Len(messages') = Len(r.before) + 2
    /\ SubSeq(messages', 1, Len(r.before)) = r.before
    /\ messages'[Len(r.before) + 1].role = "user"
    /\ messages'[Len(r.before) + 2].role = "assistant"

\* C3: when a submission whose request succeeds completes, messages is
\* the sequence at the moment of submission followed by one new user Message and
\* one new assistant Message, and agentStatus is ready, whatever was interleaved.
C3_SnapshotPlusPair ==
    [][\A r \in inflight :
          Succeeds(r) => (SnapshotPlusPair(r) /\ agentStatus' = "ready")]_vars

ErrorText(op) == IF op = "sendMessage" THEN SendMessageError ELSE UploadFileError

\* every step of that id in steps has that status
Marked(steps, id, status) ==
    \A i \in DOMAIN steps : steps[i].id = id => steps[i].status = status

\* C4: an accepted call appends exactly one user Message; when its request fails
\* exactly one assistant error Message is appended, the request-start step is
\* marked error, agentStatus becomes error and a reset timer is pending; and
\* agentStatus error leads to agentStatus ready.
C4_FailedSubmission ==
    /\ [][/\ AcceptedCall => AppendsOne("user")
          /\ \A r \in inflight :
                Fails(r) =>
                   /\ AppendsOne("assistant")
                   /\ messages'[Len(messages')].content = ErrorText(r.op)
                   /\ Len(thinkingSteps') = Len(thinkingSteps)
                   /\ Marked(thinkingSteps', r.stepId, "error")
                   /\ agentStatus' = "error"
                   /\ r.sub \in timers']_vars
    /\ (agentStatus = "error") ~> (agentStatus = "ready")

\* a request has just failed: its step shows error, the error Message is last,
\* and the reset timer is pending
C4_Witness ==
    /\ event.op = "settled" /\ ~event.accepted
    /\ agentStatus = "error"
    /\ timers # {}
    /\ Len(messages) = 2
    /\ messages[1].role = "user"
    /\ messages[2].content \in {SendMessageError, UploadFileError}
    /\ Len(thinkingSteps) = 1 /\ thinkingSteps[1].status = "error"

\* the values the step writes to agentStatus, in order.  A handler that writes
\* agentStatus records its writes in event; a render, and the resumption that
\* only calls response.json(), write nothing and leave event as it was
StatusWrites ==
    IF event' = event THEN <<>> ELSE event'.writes

\* the transitions of the state machine, each with the handler that may take it
ListedTransitions ==
    { <<"ready", "thinking", "sendMessage">>, <<"ready", "thinking", "uploadFile">>,
      <<"thinking", "executing", "sendMessage">>,
      <<"thinking", "executing", "uploadFile">>,
      <<"executing", "ready", "settled">>,
      <<"executing", "error", "settled">>,
      <<"error", "ready", "timer">> }

\* C5: every change of agentStatus is ready to thinking (submit), thinking to
\* executing (request issued), executing to ready (success), executing to error
\* (failure) or error to ready (timer).
C5_OnlyListedTransitions ==
    [][LET path == <<agentStatus>> \o StatusWrites
       IN \A i \in 1..(Len(path) - 1) :
             path[i] # path[i + 1] =>
                <<path[i], path[i + 1], event'.op>> \in ListedTransitions]_vars

\* the step appends a user Message, creates a running step and issues a request
CallGoesOn ==
    /\ AppendsOne("user")
    /\ Len(thinkingSteps') = Len(thinkingSteps) + 1
    /\ thinkingSteps'[Len(thinkingSteps')].status = "running"
    /\ nFetch' = nFetch + 1
    /\ Cardinality(inflight') = Cardinality(inflight) + 1

\* C6: a call made while agentStatus is not ready (thinking, executing or error)
\* is a no-op: no message is appended, no step is created, no request is issued.
C6_RejectedUnlessReady ==
    [][((SendMessage \/ UploadFile) /\ agentStatus # "ready")
          => UNCHANGED <<hookState, inflight, nFetch>>]_vars

\* C7: when the backend returns a non-2xx response, whether or not its body is
\* JSON, the handler takes the failure path: the request-start step is marked
\* error, the fixed error Message is appended and agentStatus becomes error.
C7_NonSuccessResponseFails ==
    [][\A r \in inflight, out \in ErrorResponses :
          (\E newId \in generateId(MessageIds), draw \in SettleDraws(out, StepIds) :
               \/ sendMessageSettled(r, out, newId, draw)
               \/ uploadFileSettled(r, out, newId, draw))
          => /\ agentStatus' = "error"
             /\ messages'[Len(messages')].content = ErrorText(r.op)
             /\ Marked(thinkingSteps', r.stepId, "error")]_vars

\* C8: every accepted submission leads to a state in which its handler has
\* handled the outcome and isProcessing is false; handling an outcome always
\* clears the gate.
C8_GateCleared ==
    /\ [][\A r \in inflight : Settles(r) => isProcessing' = FALSE]_vars
    /\ \A n \in 1..MaxSubmissions :
          (n \in Subs(inflight)) ~> (n \notin Subs(inflight) /\ ~isProcessing)

\* a failed request has been handled and the gate is open again
C8_Witness ==
    /\ event.op = "settled" /\ ~event.accepted
    /\ ~isProcessing /\ inflight = {} /\ nAccepted > 0

\* C9: message order is submission order: the messages of an earlier submission
\* all come before the messages of a later one.
C9_SubmissionOrder ==
    \A i, j \in DOMAIN origin : i < j => origin[i][1] <= origin[j][1]

\* C10: the requests issued are exactly the accepted submissions: only a call
\* that passes the guard issues a request or appends a user Message, and no
\* handler that resumes, no timer and no rejected call issues one.
C10_NoQueueNoRetry ==
    /\ [](/\ nFetch = nAccepted
          /\ Subs(inflight) \subseteq 1..nAccepted
          /\ Len(messages) <= 2 * nAccepted - Cardinality(inflight))
    /\ [][(nFetch' # nFetch \/ Subs(inflight') \ Subs(inflight) # {})
             => (AcceptedCall /\ nFetch' = nFetch + 1)]_vars

\* every submission was accepted and the last request failed: nothing is in
\* flight and no request beyond the accepted ones was issued
C10_Witness ==
    /\ event.op = "settled" /\ ~event.accepted
    /\ inflight = {}
    /\ nAccepted = MaxSubmissions /\ nFetch = MaxSubmissions

----------------------------------------------------------------------------
(* Properties of parseIntermediateSteps, under ParseSpec *)

\* the markers in the order of the specification's table, each with its step type
MarkerTypes ==
    << <<"transcribe_audio", "audio">>, <<"query_document", "document">>,
       <<"classify_ticket", "classify">> >>

\* the chunk is one of the chunks of s
Occurs(chunk, s) == \E i \in DOMAIN s : s[i] = chunk

\* the step types of the markers that occur in s, in table order, one for each
MatchedTypes(s) ==
    LET m == SelectSeq(MarkerTypes, LAMBDA p : Occurs(p[1], s))
    IN [i \in DOMAIN m |-> m[i][2]]

TypesOf(steps) == [i \in DOMAIN steps |-> steps[i].type]

\* C11: for every trace string with a marker in it, the steps returned are one
\* per marker the string contains, in the order audio, document, classify,
\* whatever the order of the markers in the string and however often they occur;
\* classify_ticket before transcribe_audio gives exactly [audio, classify].
C11_FixedOrder ==
    parsed # None =>
       /\ MatchedTypes(trace) # <<>> => TypesOf(parsed[1]) = MatchedTypes(trace)
       /\ (/\ Occurs("classify_ticket", trace) /\ Occurs("transcribe_audio", trace)
           /\ ~Occurs("query_document", trace))
             => TypesOf(parsed[1]) = <<"audio", "classify">>

\* classify_ticket twice, around transcribe_audio, has given [audio, classify]
C11_Witness ==
    /\ trace = <<"classify_ticket", "transcribe_audio", "classify_ticket">>
    /\ parsed # None
    /\ TypesOf(parsed[1]) = <<"audio", "classify">>

\* C12: the result is exactly one reasoning step when the trace string contains
\* none of the markers, and has no reasoning step when it contains one; it
\* always has between one and three steps, all of status completed.
C12_ReasoningIffNoMarker ==
    parsed # None =>
       LET steps == parsed[1]
       IN /\ Len(steps) \in 1..3
          /\ \A i \in DOMAIN steps : steps[i].status = "completed"
          /\ IF MatchedTypes(trace) = <<>>
             THEN TypesOf(steps) = <<"reasoning">>
             ELSE \A i \in DOMAIN steps : steps[i].type # "reasoning"

\* the empty string has given one reasoning step
C12_Witness ==
    /\ trace = EmptyStr
    /\ parsed # None
    /\ TypesOf(parsed[1]) = <<"reasoning">>
    /\ parsed[1][1].status = "completed"

----------------------------------------------------------------------------
(* Properties of clearMessages, under Spec *)

\* the requests in flight: the suspended handlers without their history fields
Requests(runs) ==
    { [sub |-> r.sub, op |-> r.op, stepId |-> r.stepId, fileName |-> r.fileName,
       form |-> r.form, endpoint |-> r.endpoint] : r \in runs }

\* C13: clearMessages empties messages and thinkingSteps and leaves isProcessing,
\* agentStatus, the requests in flight and the pending reset timers as they
\* were, in every state in which it is called.
C13_ClearFrame ==
    [][ClearMessages =>
          /\ messages' = <<>>
          /\ thinkingSteps' = <<>>
          /\ UNCHANGED <<isProcessing, agentStatus, renderedIsProcessing, timers,
                         nFetch>>
          /\ Requests(inflight') = Requests(inflight)]_vars

\* clearMessages has just run with a request in flight and a reset timer pending
C13_Witness ==
    /\ event.op = "clearMessages"
    /\ messages = <<>> /\ thinkingSteps = <<>>
    /\ isProcessing /\ agentStatus = "executing"
    /\ inflight # {} /\ timers # {}

\* C14: after clearMessages on a session that had messages, the next sendMessage
\* behaves as on a fresh session, whatever state clearMessages was called in: a
\* valid call is accepted, agentStatus goes from ready through thinking to
\* executing and stays there until the request settles, and the sequences are
\* then the user Message and the reply, and the request-start step first.
C14_SubmitAfterClearAsFresh ==
    [][/\ \A content \in Contents :
             (/\ event.op = "clearMessages" /\ nAccepted > 0
              /\ sendMessageValid(content) /\ sendMessage(content))
                => (agentStatus = "ready" /\ CallGoesOn /\ agentStatus' = "executing")
       /\ \A r \in inflight :
             (/\ r.op = "sendMessage" /\ r.sub > 1 /\ r.before = <<>> /\ ~r.dirty
              /\ Settles(r))
                => /\ agentStatus = "executing"
                   /\ Len(messages') = 2
                   /\ messages'[1].role = "user" /\ messages'[1].content = r.form.query[1]
                   /\ messages'[2].role = "assistant"
                   /\ thinkingSteps' # <<>> /\ thinkingSteps'[1].type = "reasoning"
                   /\ thinkingSteps'[1].status \in {"completed", "error"}]_vars

\* C15: clearMessages is idempotent: in the state one call of it leaves, a
\* second call changes neither messages, thinkingSteps, isProcessing and
\* agentStatus nor the requests in flight and the pending timers.
C15_ClearIdempotent ==
    event.op = "clearMessages" =>
       ~ENABLED (/\ ClearMessages
                 /\ \/ hookState' # hookState
                    \/ inflight' # inflight
                    \/ timers' # timers)

\* clearMessages has run on a session with a message and a step, with a request
\* in flight; this is the state a second call leaves as well
C15_Witness ==
    /\ event.op = "clearMessages"
    /\ nAccepted > 0 /\ inflight # {} /\ isProcessing
    /\ messages = <<>> /\ thinkingSteps = <<>>
    /\ ENABLED ClearMessages

----------------------------------------------------------------------------
(* Properties of a submission's result *)

\* C16: when the one sendMessage(content) of a fresh session is answered with
\* response text R and a non-empty trace T, messages is exactly the user Message
\* with content followed by the assistant Message with R, and thinkingSteps is
\* exactly the request-start step (reasoning, completed, duration 1200)
\* followed by the steps parseIntermediateSteps(T) returns, in order.
C16_FreshSuccess ==
    [][\A r \in inflight, out \in FreshOutcomes, newId \in generateId(MessageIds) :
          (/\ r.op = "sendMessage" /\ r.sub = 1 /\ r.before = <<>> /\ ~r.dirty
           /\ Truthy(out.response) /\ Truthy(out.intermediate_steps)
           /\ \E draw \in SettleDraws(out, StepIds) :
                 sendMessageSettled(r, out, newId, draw))
          => LET T == out.intermediate_steps[1]
             IN /\ Len(messages') = 2
                /\ messages'[1].role = "user"
                /\ messages'[1].content = r.form.query[1]
                /\ messages'[2].role = "assistant"
                /\ messages'[2].content = out.response[1]
                /\ thinkingSteps'[1] =
                       ThinkingStep(r.stepId, "reasoning", Str("Processing Request"),
                                    Str("Analyzing your message..."), "completed",
                                    Some(1200))
                /\ \E draw \in Draws(T, StepIds) :
                       SubSeq(thinkingSteps', 2, Len(thinkingSteps'))
                          = parseIntermediateSteps(T, draw)
                /\ agentStatus' = "ready"]_vars

\* sendMessage("hello") has been answered with "hi there" and classify_ticket
C16_Witness ==
    /\ event.op = "settled" /\ event.accepted
    /\ nAccepted = 1 /\ inflight = {}
    /\ Len(messages) = 2
    /\ messages[1].content = Str("hello") /\ messages[2].content = Str("hi there")
    /\ TypesOf(thinkingSteps) = <<"reasoning", "classify">>
    /\ \A i \in DOMAIN thinkingSteps : thinkingSteps[i].status = "completed"

\* the texts of the failure Messages (lines 161, 242)
FailureTexts == {SendMessageError, UploadFileError}

\* what makes a handler take its catch block: fetch rejects, the body is not
\* JSON, the body is the JSON value null, the body's intermediate_steps is a
\* truthy value that is not a string
FailureCauses ==
    { out \in Outcomes :
        out.kind = "reject" \/ out.json \in {"invalid", "null"} \/ ParseThrows(out) }

\* C17 as stated: the failure Message of every failed submission carries one and
\* the same fixed string, whatever the cause and whether sendMessage or
\* uploadFile failed: a failure Message has the content of every failure
\* Message already in the sequence.
C17_OneFailureText ==
    [][\A r \in inflight :
          Fails(r) =>
             \A i \in DOMAIN messages :
                (messages[i].role = "assistant" /\ messages[i].content \in FailureTexts)
                   => messages'[Len(messages')].content = messages[i].content]_vars

\* C17 amended: the failure Message carries a fixed string that depends on the
\* operation only, not on the cause: the text of line 161 whenever sendMessage
\* takes its catch block and the text of line 242 whenever uploadFile does; the
\* two texts differ.
C17_FailureTextPerOperation ==
    [][/\ SendMessageError # UploadFileError
       /\ \A r \in inflight, out \in FailureCauses, newId \in generateId(MessageIds) :
             (\/ sendMessageSettled(r, out, newId, <<>>)
              \/ uploadFileSettled(r, out, newId, <<>>))
                => /\ messages'[Len(messages')].role = "assistant"
                   /\ messages'[Len(messages')].content =
                         IF r.op = "sendMessage" THEN SendMessageError
                                                 ELSE UploadFileError]_vars

\* a sendMessage and an uploadFile have both failed: the sequence holds the two
\* different failure texts
C17_Witness ==
    /\ event.op = "settled" /\ ~event.accepted
    /\ \E i, j \in DOMAIN messages :
          /\ messages[i].content = SendMessageError
          /\ messages[j].content = UploadFileError

----------------------------------------------------------------------------
(* Properties of the two sequences *)

\* C18: in every reachable state the Messages of the message sequence have
\* pairwise distinct ids.
C18_UniqueMessageIds ==
    \A i, j \in DOMAIN messages : i # j => messages[i].id # messages[j].id

\* C19: every step leaves the message sequence unchanged, appends exactly one
\* Message at its end, or, if it is a clearMessages step, empties it; no
\* Message in it is changed, moved or removed on its own.
C19_AppendOnly ==
    [][\/ messages' = messages
       \/ /\ Len(messages') = Len(messages) + 1
          /\ SubSeq(messages', 1, Len(messages)) = messages
       \/ ClearMessages /\ messages' = <<>>]_vars

\* the sequence was emptied with a request in flight, and the reply of that
\* request and the user Message of the next have been appended since
C19_Witness ==
    /\ origin = << <<1, "assistant">>, <<2, "user">> >>
    /\ Len(messages) = 2
    /\ messages[1].role = "assistant" /\ messages[2].role = "user"

\* the positions whose entry the step changes
Changed ==
    { i \in DOMAIN thinkingSteps :
        i \in DOMAIN thinkingSteps' /\ thinkingSteps'[i] # thinkingSteps[i] }

\* the fields in which two entries differ
DiffFields(a, b) == { f \in DOMAIN a : a[f] # b[f] }

\* C20 as stated: between clears the step sequence only grows, and a step
\* changes at most one entry, the one created at the start of the request being
\* handled, and of that entry only status and duration.
C20_OnlyStatusAndDuration ==
    [][\/ ClearMessages
       \/ /\ Len(thinkingSteps') >= Len(thinkingSteps)
          /\ Cardinality(Changed) <= 1
          /\ \A i \in Changed :
                /\ \E r \in inflight : Settles(r) /\ thinkingSteps[i].id = r.stepId
                /\ DiffFields(thinkingSteps[i], thinkingSteps'[i])
                      \subseteq {"status", "duration"}]_vars

\* C20 amended: between clears the step sequence only grows, and only a handler
\* that resumes changes entries: those whose id is the id of its request-start
\* step (one entry, unless generateId has returned that id more than once).
\* sendMessage changes their status and duration only; uploadFile changes
\* status, duration and, once the response is parsed, description, which it
\* sets to "Processed " followed by the file name.
C20_UpdatesByStepId ==
    [][\/ ClearMessages
       \/ /\ Len(thinkingSteps') >= Len(thinkingSteps)
          /\ \A i \in Changed :
                \E r \in inflight :
                   /\ Settles(r)
                   /\ thinkingSteps[i].id = r.stepId
                   /\ DiffFields(thinkingSteps[i], thinkingSteps'[i]) \subseteq
                         (IF r.op = "uploadFile"
                          THEN {"status", "duration", "description"}
                          ELSE {"status", "duration"})
                   /\ thinkingSteps'[i].description # thinkingSteps[i].description
                         => thinkingSteps'[i].description
                               = Str("Processed ") \o r.fileName]_vars

\* an uploadFile has succeeded after an earlier submission: its request-start
\* step is completed and its description names the processed file, and the
\* step of the earlier submission is as it was
C20_Witness ==
    /\ event.op = "settled" /\ event.accepted
    /\ Len(thinkingSteps) >= 2
    /\ thinkingSteps[1].type = "reasoning" /\ thinkingSteps[1].status = "error"
    /\ thinkingSteps[2].status = "completed"
    /\ thinkingSteps[2].description = Str("Processed ") \o Str("call.mp3")
    /\ thinkingSteps[2].duration = Some(2500)

----------------------------------------------------------------------------
(* Properties of the guards and of the outcomes *)

\* what a call may touch: the hook's state, the requests, the timers
Effects == <<hookState, inflight, timers, nFetch>>

\* C21: in every state, sendMessage with empty or whitespace-only content and
\* uploadFile with no file change nothing: messages (so no error Message is
\* appended), thinkingSteps, isProcessing and agentStatus stay as they are and
\* no request is issued.
C21_ValidationNoOp ==
    /\ \A content \in Contents :
          Trim(content) = EmptyStr =>
             ~ENABLED (/\ sendMessage(content) /\ UNCHANGED callVars
                       /\ Effects' # Effects)
    /\ \A file \in Files, query \in Queries :
          ~file.present =>
             ~ENABLED (/\ uploadFile(file, query) /\ UNCHANGED callVars
                       /\ Effects' # Effects)

\* a call has just been turned away for its input alone, the gate being open,
\* in the error window of an earlier failure
C21_Witness ==
    /\ event.op \in Calls /\ ~event.accepted
    /\ ~renderedIsProcessing /\ ~isProcessing
    /\ agentStatus = "error" /\ timers # {}
    /\ Len(messages) = 2

\* the step resumes r with the transport's outcome out
Resumes(r, out) ==
    \E newId \in generateId(MessageIds), draw \in SettleDraws(out, StepIds) :
        \/ sendMessageSettled(r, out, newId, draw)
        \/ uploadFileSettled(r, out, newId, draw)

\* a 2xx response whose body is a JSON object without response and without
\* intermediate_steps
EmptyObjects ==
    { out \in OkResponses :
        /\ out.json = "object"
        /\ out.response = None /\ out.intermediate_steps = None /\ out.number = None }

\* a 2xx response whose body is a JSON object that lacks response or
\* intermediate_steps, or has them empty (an empty string, the number 0)
LacksFields ==
    { out \in OkResponses :
        /\ out.json = "object" /\ ~ParseThrows(out)
        /\ ~Truthy(out.response) \/ ~Truthy(out.intermediate_steps) }

SendMessageAck == Str("I processed your request.")
UploadFileAck == Str("File processed successfully.")
AckTexts == {SendMessageAck, UploadFileAck}

\* a successful submission whose response text is absent or empty: a 2xx
\* response whose body is a JSON object with intermediate_steps absent, empty or
\* a string, so that nothing throws, and without a truthy response
NoResponseText ==
    { out \in OkResponses :
        out.json = "object" /\ ~ParseThrows(out) /\ ~Truthy(out.response) }

\* C23 as stated: such a submission appends exactly one assistant Message with
\* the acknowledgement and sets agentStatus to ready, and the acknowledgement
\* is one and the same string for sendMessage and uploadFile: it has the
\* content of every acknowledgement already in the sequence.
C23_OneAcknowledgement ==
    [][\A r \in inflight, out \in NoResponseText :
          Resumes(r, out) =>
             /\ AppendsOne("assistant")
             /\ agentStatus' = "ready"
             /\ \A i \in DOMAIN messages :
                   messages[i].content \in AckTexts
                      => messages'[Len(messages')].content = messages[i].content]_vars

\* C23 amended: on a successful submission whose response text is absent or
\* empty, the handler appends exactly one assistant Message and sets
\* agentStatus to ready; the Message carries a fixed acknowledgement that
\* depends on the operation: the text of line 147 for sendMessage, the
\* different text of line 228 for uploadFile.
C23_AcknowledgementPerOperation ==
    [][/\ SendMessageAck # UploadFileAck
       /\ \A r \in inflight, out \in NoResponseText :
             Resumes(r, out) =>
                /\ AppendsOne("assistant")
                /\ messages'[Len(messages')].content =
                      IF r.op = "sendMessage" THEN SendMessageAck ELSE UploadFileAck
                /\ agentStatus' = "ready"
                /\ timers' = timers]_vars

\* a sendMessage and an uploadFile have both been answered without response
\* text: the sequence holds the two different acknowledgements
C23_Witness ==
    /\ event.op = "settled" /\ event.accepted
    /\ agentStatus = "ready"
    /\ \E i, j \in DOMAIN messages :
          /\ messages[i].content = SendMessageAck
          /\ messages[j].content = UploadFileAck

----------------------------------------------------------------------------
(* Properties of the fileType expression, under FileTypeSpec *)

\* the category the specification gives a media type
ExpectedCategory(t) ==
    IF t # <<>> /\ t[1] = "audio" THEN "audio"
    ELSE IF t = <<"application/pdf">> \/ (t # <<>> /\ t[1] = "image") THEN "document"
    ELSE "general"

\* C24: a media type that starts with audio gives audio; application/pdf or a
\* type that starts with image gives document; every other type, the empty
\* string included, gives general; every media type gives exactly one of the
\* three.
C24_FileTypeCategories ==
    category # None =>
       /\ category[1] \in {"audio", "document", "general"}
       /\ category[1] = ExpectedCategory(mediaType)
       /\ mediaType = EmptyStr => category[1] = "general"

\* the empty media type has been classified as general
C24_Witness ==
    /\ mediaType = EmptyStr
    /\ category = Some("general")

----------------------------------------------------------------------------
(* Properties of the requests *)

\* C25: an accepted uploadFile(file, query) appends a user Message whose content
\* is query when query is not empty and "Analyze this file" otherwise, and whose
\* file is the file's name; the query field of the request it sends is that
\* same content.
C25_UploadMessageAndQuery ==
    \A file \in Files, query \in Queries :
       ~ENABLED (/\ uploadFile(file, query) /\ UNCHANGED callVars
                 /\ nAccepted' = nAccepted + 1
                 /\ LET content == IF query # EmptyStr THEN query
                                   ELSE Str("Analyze this file")
                    IN ~(/\ AppendsOne("user")
                         /\ messages'[Len(messages')].content = content
                         /\ messages'[Len(messages')].file = Some(file.name)
                         /\ \E r \in inflight' :
                               /\ r.sub = nAccepted' /\ r.op = "uploadFile"
                               /\ r.form.query = Some(content)))

\* uploadFile has just been accepted with an empty query: the Message and the
\* request both carry the default text, and the Message names the file
C25_Witness ==
    /\ event.op = "uploadFile" /\ event.accepted
    /\ messages[Len(messages)].content = Str("Analyze this file")
    /\ messages[Len(messages)].file = Some(Str("call.mp3"))
    /\ \E r \in inflight :
          /\ r.sub = nAccepted /\ r.op = "uploadFile"
          /\ r.form.query = Some(Str("Analyze this file"))

\* the fields a form carries
Fields(form) == { f \in DOMAIN form : form[f] # None }

\* POST /api/agents/process
ProcessEndpoint == Endpoint("POST", Str("/api/agents/process"))

\* C26: every request of sendMessage carries exactly one field, query, equal to
\* the content submitted; every request of uploadFile carries exactly the
\* fields file and query; all of them are POSTs to /api/agents/process.
C26_RequestFields ==
    /\ \A r \in inflight :
          /\ r.endpoint = ProcessEndpoint
          /\ Fields(r.form) =
                IF r.op = "sendMessage" THEN {"query"} ELSE {"file", "query"}
    /\ \A content \in Contents :
          ~ENABLED (/\ sendMessage(content) /\ UNCHANGED callVars
                    /\ nAccepted' = nAccepted + 1
                    /\ ~\E r \in inflight' :
                          /\ r.sub = nAccepted' /\ r.op = "sendMessage"
                          /\ r.form.query = Some(content))

\* a sendMessage has been answered and an uploadFile has just been accepted:
\* its request carries file and query and goes to the processing endpoint
C26_Witness ==
    /\ event.op = "uploadFile" /\ event.accepted
    /\ Len(messages) = 3 /\ messages[1].file = None
    /\ \E r \in inflight :
          /\ r.op = "uploadFile"
          /\ Fields(r.form) = {"file", "query"}
          /\ r.endpoint = ProcessEndpoint

----------------------------------------------------------------------------
(* The reset timer and the status *)

\* C27: whenever a reset timer fires, agentStatus is error before and ready
\* after, and no submission later than the one that scheduled the timer is in
\* flight; so a timer never moves agentStatus from thinking or executing to
\* ready.
C27_TimerOnlyErrorToReady ==
    [][ResetTimerFires =>
          /\ agentStatus = "error" /\ agentStatus' = "ready"
          /\ \A t \in timers \ timers' : \A r \in inflight : r.sub <= t]_vars

\* C28: isProcessing is true exactly when agentStatus is thinking or executing.
C28_StatusAgreesWithGate ==
    isProcessing <=> agentStatus \in {"thinking", "executing"}

\* C29: agentStatus leaves error only when a new submission is accepted or when
\* the reset timer of the failure that produced the status fires.  That failure
\* is the submission of the last Message, the error Message, as long as the
\* conversation has not been cleared since.
C29_ErrorUntilOwnTimer ==
    [][(agentStatus = "error" /\ agentStatus' # "error") =>
          \/ AcceptedCall
          \/ /\ ResetTimerFires
             /\ origin # <<>> => timers \ timers' = {origin[Len(origin)][1]}]_vars

\* nothing is pending and the user is not calling: the hook is at rest
Quiet == ~isProcessing /\ agentStatus = "ready"

\* C30: once the user makes no further call, and with every request settled and
\* every timer fired, the hook reaches isProcessing false and agentStatus ready
\* and stays there.
C30_Quiescence ==
    <>[][~(SendMessage \/ UploadFile \/ ClearMessages)]_vars => <>[]Quiet

\* every submission allowed has been made, the last one failed, and its timer
\* has fired: nothing is pending and the hook is at rest
C30_Witness ==
    /\ event.op = "timer"
    /\ nAccepted = MaxSubmissions /\ inflight = {} /\ timers = {}
    /\ Quiet

----------------------------------------------------------------------------
(* Pairing of messages, and the steps of a submission *)

\* C31: every assistant Message is immediately preceded by the user Message of
\* the submission it answers: the sequence is made of user/assistant pairs,
\* with at most one unanswered user Message at the end.
C31_AssistantFollowsUser ==
    \A i \in DOMAIN messages :
       messages[i].role = "assistant" =>
          /\ i > 1
          /\ messages[i - 1].role = "user"
          /\ origin[i - 1][1] = origin[i][1]

\* the positions of the steps that are running
Running(steps) == { i \in DOMAIN steps : steps[i].status = "running" }

\* C32: an accepted submission creates exactly one step, with status running;
\* at most one step is running in any state, and none is when isProcessing is
\* false.
C32_OneRunningStep ==
    /\ [][AcceptedCall =>
             /\ Len(thinkingSteps') = Len(thinkingSteps) + 1
             /\ SubSeq(thinkingSteps', 1, Len(thinkingSteps)) = thinkingSteps
             /\ thinkingSteps'[Len(thinkingSteps')].status = "running"]_vars
    /\ [](/\ Cardinality(Running(thinkingSteps)) <= 1
          /\ ~isProcessing => Running(thinkingSteps) = {})

\* C33: steps are synthesized only when a submission succeeds with a trace
\* that is present and not empty.  The call adds the request-start step; the
\* resumed handler adds the steps parsed from the trace in that case, and no
\* step at all when the trace is absent or empty or when the submission fails.
C33_SynthesizedOnlyWithTrace ==
    [][/\ AcceptedCall => Len(thinkingSteps') = Len(thinkingSteps) + 1
       /\ \A r \in inflight, out \in Outcomes :
             Resumes(r, out) =>
                LET added == Len(thinkingSteps') - Len(thinkingSteps)
                IN IF out \notin FailureCauses /\ Truthy(out.intermediate_steps)
                   THEN /\ added = StepCount(out.intermediate_steps[1])
                        /\ \E draw \in SettleDraws(out, StepIds) :
                              SubSeq(thinkingSteps', Len(thinkingSteps) + 1,
                                     Len(thinkingSteps'))
                                 = parseIntermediateSteps(out.intermediate_steps[1], draw)
                   ELSE added = 0]_vars

\* a submission has succeeded on a response without a trace: the request-start
\* step, completed, is the only step
C33_Witness ==
    /\ event.op = "settled" /\ event.accepted
    /\ nAccepted = 1 /\ inflight = {}
    /\ Len(messages) = 2
    /\ Len(thinkingSteps) = 1
    /\ thinkingSteps[1].status = "completed"

\* C34: when clearMessages is called while a request is in flight and the
\* request settles next (nothing has been appended since the clear, so the
\* message sequence is still empty), the step sequence afterwards is exactly
\* the steps synthesized from the response trace on success, with no entry for
\* the request-start step, and is empty on failure.
C34_SettleAfterClear ==
    [][\A r \in inflight, out \in Outcomes :
          (messages = <<>> /\ Resumes(r, out)) =>
             /\ thinkingSteps = <<>>
             /\ IF out \notin FailureCauses /\ Truthy(out.intermediate_steps)
                THEN \E draw \in SettleDraws(out, StepIds) :
                        thinkingSteps'
                           = parseIntermediateSteps(out.intermediate_steps[1], draw)
                ELSE thinkingSteps' = <<>>]_vars

\* a request cleared while in flight has succeeded: its reply is the only
\* Message and the step synthesized from its trace is the only step
C34_Witness ==
    /\ event.op = "settled" /\ event.accepted
    /\ nAccepted = 1 /\ inflight = {}
    /\ Len(messages) = 1 /\ messages[1].role = "assistant"
    /\ TypesOf(thinkingSteps) = <<"classify">>

----------------------------------------------------------------------------
(* The simulated progress of FileUpload *)

\* C35: the progress of the file shown stays within 0..100 and never decreases
\* while that file is shown (a step that drops a file shows a new one),
\* whatever the order of drops, removals, submissions and ticks.
C35_ProgressMonotone ==
    [][/\ uploadedFile' # None =>
             uploadedFile'[1].progress \in 0..Full
       /\ (uploadedFile # None /\ uploadedFile' # None
              /\ Len(intervals') = Len(intervals)) =>
             uploadedFile'[1].progress >= uploadedFile[1].progress]_vars

====
